---- MODULE Spec2Model ----
(***************************************************************************)
(* Model of flotta-bot (src/bot.py): the monthly report pipeline           *)
(* (generate_report) and the guided entry conversation (nuovo_start and    *)
(* the ConversationHandler configured in main).                            *)
(*                                                                         *)
(* Text is modelled as a sequence of character codes (32 = space,          *)
(* 65.. = 'A'.., 97.. = 'a'..), so that strip / replace / upper and the    *)
(* lexicographic order of Python strings are computed, not assumed.        *)
(* A DATA cell is the text "y-m-d", modelled as <<y, m, d>>; a blank cell  *)
(* is the empty text <<>>.                                                 *)
(***************************************************************************)
EXTENDS Integers, Sequences, FiniteSets, TLC

VARIABLES sheet, conv, user_data, keyboard, reply, path, rep

vars == <<sheet, conv, user_data, keyboard, reply, path, rep>>

(***************************************************************************)
(* Bounds of the model.                                                    *)
(***************************************************************************)
\* Largest number of rows of the sheet explored by ReportSpec.
MaxRows == 3
\* Largest number of rows of the sheet explored by Spec (entry sessions).
MaxStore == 2

(***************************************************************************)
(* Program constants.                                                      *)
(***************************************************************************)
\* Telegram ids, written as their decimal text: 5967775955 does not fit the
\* 32-bit integers of the model checker, and only membership is ever tested.
AUTHORIZED_USERS == {"362485425", "5967775955"}

SELECT_TARGA == 2
GET_DRIVER == 3
GET_KM == 4
GET_SEGNALAZIONI == 5
\* ConversationHandler.END, the value nuovo_start returns to end a conversation.
END == -1

required_cols == {"DATA", "DRIVER", "TARGA"}

(***************************************************************************)
(* Text helpers: Python str operations used by the normalisation.          *)
(***************************************************************************)
SPACE == 32

\* str.upper() on one character.
UpperChar(c) == IF c >= 97 /\ c <= 122 THEN c - 32 ELSE c

\* Series.str.upper()
Upper(s) == [i \in 1..Len(s) |-> UpperChar(s[i])]

RECURSIVE LStrip(_)
LStrip(s) == IF s # <<>> /\ Head(s) = SPACE THEN LStrip(Tail(s)) ELSE s

RECURSIVE RStrip(_)
RStrip(s) ==
    IF s # <<>> /\ s[Len(s)] = SPACE THEN RStrip(SubSeq(s, 1, Len(s) - 1)) ELSE s

\* Series.str.strip()
Strip(s) == RStrip(LStrip(s))

\* Series.str.replace(' ', '')
RECURSIVE RemoveSpaces(_)
RemoveSpaces(s) ==
    IF s = <<>> THEN <<>>
    ELSE IF Head(s) = SPACE THEN RemoveSpaces(Tail(s))
    ELSE <<Head(s)>> \o RemoveSpaces(Tail(s))

\* Python's order on str: lexicographic by code point.
RECURSIVE StrLess(_, _)
StrLess(a, b) ==
    IF b = <<>> THEN FALSE
    ELSE IF a = <<>> THEN TRUE
    ELSE IF Head(a) # Head(b) THEN Head(a) < Head(b)
    ELSE StrLess(Tail(a), Tail(b))

(***************************************************************************)
(* Dates: pd.to_datetime(..., errors='coerce').                            *)
(***************************************************************************)
\* The null timestamp; text cells are never null after astype(str).
NaT == <<0>>

IsLeap(y) == (y % 4 = 0 /\ y % 100 # 0) \/ y % 400 = 0

DaysIn(y, m) ==
    IF m = 2 THEN (IF IsLeap(y) THEN 29 ELSE 28)
    ELSE IF m \in {4, 6, 9, 11} THEN 30 ELSE 31

ToDatetime(cell) ==
    IF Len(cell) = 3 /\ cell[2] \in 1..12 /\ cell[3] \in 1..DaysIn(cell[1], cell[2])
    THEN cell
    ELSE NaT

\* pandas isna() on a normalised cell.
IsNa(v) == v = NaT

(***************************************************************************)
(* The sheet and its reading.                                              *)
(***************************************************************************)
Columns == {"DATA", "DRIVER", "TARGA", "KM", "SEGNALAZIONI"}

\* sheet.get_all_records(): one mapping per row, keyed by the header row.
GetAllRecords(sh) ==
    [i \in 1..Len(sh.rows) |-> [c \in sh.header |-> sh.rows[i][c]]]

\* pd.DataFrame(records).columns; no records give a frame with no columns.
DfColumns(records) == IF records = <<>> THEN {} ELSE DOMAIN records[1]

(***************************************************************************)
(* generate_report: normalisation, filter, aggregation, sort, formatting.  *)
(***************************************************************************)
\* df[mask]: the rows of a frame whose entry in the boolean mask is true.
RECURSIVE BoolIndex(_, _)
BoolIndex(df, mask) ==
    IF df = <<>> THEN <<>>
    ELSE (IF Head(mask) THEN <<Head(df)>> ELSE <<>>)
         \o BoolIndex(Tail(df), Tail(mask))

\* Lines 72-74: the three column assignments.
NormalizeRow(r) ==
    [r EXCEPT !["DATA"] = ToDatetime(r["DATA"]),
              !["DRIVER"] = Upper(Strip(r["DRIVER"])),
              !["TARGA"] = Upper(RemoveSpaces(r["TARGA"]))]

\* Line 75: df.dropna(subset=['DATA', 'DRIVER', 'TARGA']).
DropNaKeep(r) == ~IsNa(r["DATA"]) /\ ~IsNa(r["DRIVER"]) /\ ~IsNa(r["TARGA"])

DropNa(df) == BoolIndex(df, [i \in 1..Len(df) |-> DropNaKeep(df[i])])

Normalize(records) ==
    DropNa([i \in 1..Len(records) |-> NormalizeRow(records[i])])

\* The mask without the year test.
InPeriod_month_only(r, mese, anno) == r["DATA"][2] = mese

\* Line 78: the month / year mask.
InPeriod(r, mese, anno) == r["DATA"][2] = mese /\ r["DATA"][1] = anno

FilterPeriod(df, mese, anno) ==
    BoolIndex(df, [i \in 1..Len(df) |-> InPeriod(df[i], mese, anno)])

\* Series.unique(): distinct values in order of first appearance.
RECURSIVE Unique(_)
Unique(s) ==
    IF s = <<>> THEN <<>>
    ELSE LET init == Unique(SubSeq(s, 1, Len(s) - 1))
             last == s[Len(s)]
         IN IF \E i \in 1..Len(init) : init[i] = last THEN init
            ELSE Append(init, last)

\* Order of the group keys (DRIVER, TARGA): groupby sorts its keys.
KeyLess(a, b) ==
    StrLess(a[1], b[1]) \/ (a[1] = b[1] /\ StrLess(a[2], b[2]))

RECURSIVE SortKeys(_)
SortKeys(S) ==
    IF S = {} THEN <<>>
    ELSE LET m == CHOOSE x \in S : \A y \in S \ {x} : KeyLess(x, y)
         IN <<m>> \o SortKeys(S \ {m})

\* The GIORNI aggregate of line 85: ('DATA', 'size'), the number of rows.
Giorni(rowsOfGroup) == Len(rowsOfGroup)

\* The ELENCO_GIORNI aggregate of line 85: x.dt.day.unique().
ElencoGiorni(rowsOfGroup) ==
    Unique([i \in 1..Len(rowsOfGroup) |-> rowsOfGroup[i]["DATA"][3]])

\* Lines 84-86: groupby(['DRIVER', 'TARGA']).agg(...).reset_index().
GroupBy(df) ==
    LET keys == SortKeys({<<df[i]["DRIVER"], df[i]["TARGA"]>> : i \in 1..Len(df)})
        Members(k) ==
            BoolIndex(df, [i \in 1..Len(df) |->
                              df[i]["DRIVER"] = k[1] /\ df[i]["TARGA"] = k[2]])
    IN [i \in 1..Len(keys) |->
            [DRIVER |-> keys[i][1],
             TARGA |-> keys[i][2],
             GIORNI |-> Giorni(Members(keys[i])),
             ELENCO_GIORNI |-> ElencoGiorni(Members(keys[i]))]]

\* The order with GIORNI ascending.
SortBefore_ascending(a, b) ==
    StrLess(a.DRIVER, b.DRIVER)
    \/ (a.DRIVER = b.DRIVER /\ a.GIORNI < b.GIORNI)

\* Line 87: the order asked of sort_values(['DRIVER','GIORNI'], [True, False]).
SortBefore(a, b) ==
    StrLess(a.DRIVER, b.DRIVER)
    \/ (a.DRIVER = b.DRIVER /\ a.GIORNI > b.GIORNI)

\* Stable insertion of g into a sorted sequence: after every element that is
\* not strictly after g.
RECURSIVE Insert(_, _)
Insert(sorted, g) ==
    IF sorted = <<>> THEN <<g>>
    ELSE IF SortBefore(g, sorted[Len(sorted)])
         THEN Append(Insert(SubSeq(sorted, 1, Len(sorted) - 1), g),
                     sorted[Len(sorted)])
         ELSE Append(sorted, g)

\* Line 87: sort_values on several columns is a stable (lexsort) sort.
RECURSIVE SortValues(_)
SortValues(groups) ==
    IF groups = <<>> THEN <<>>
    ELSE Insert(SortValues(SubSeq(groups, 1, Len(groups) - 1)),
                groups[Len(groups)])

\* Lines 91-95: the title line (month name and year), then one block per
\* group carrying DRIVER, TARGA, GIORNI and ELENCO_GIORNI.  The empty string
\* is the empty sequence.
FormatReport(report, mese, anno) ==
    <<[nome_mese |-> mese, anno |-> anno]>> \o report

Status(text, mese, anno, err) ==
    [text |-> text, mese |-> mese, anno |-> anno, err |-> err]

\* Line 64.
StNessunDato == Status("Nessun dato trovato", 0, 0, "")

\* The missing-columns return reusing the text of line 64.
StIntestazioni_same == Status("Nessun dato trovato", 0, 0, "")

\* Line 69.
StIntestazioni == Status("Intestazioni mancanti", 0, 0, "")

\* Line 80.
StNessunDatoPer(mese, anno) == Status("Nessun dato per", mese, anno, "")

\* Line 97.
StReportGenerato == Status("Report generato", 0, 0, "")

\* The except branch answering as if the sheet were empty.
StErrore_as_no_data(e) == Status("Nessun dato trovato", 0, 0, "")

\* Line 100.
StErrore(e) == Status("Errore", 0, 0, e)

\* generate_report(context, mese, anno); read is what get_all_records did:
\* [ok |-> TRUE, records |-> ...] or [ok |-> FALSE, err |-> message].
generate_report(read, mese, anno) ==
    IF ~read.ok THEN [report |-> <<>>, status |-> StErrore(read.err)]
    ELSE IF read.records = <<>>
    THEN [report |-> <<>>, status |-> StNessunDato]
    ELSE IF ~(required_cols \subseteq DfColumns(read.records))
    THEN [report |-> <<>>, status |-> StIntestazioni]
    ELSE LET df == Normalize(read.records)
             df_mese == FilterPeriod(df, mese, anno)
         IN IF df_mese = <<>>
            THEN [report |-> <<>>, status |-> StNessunDatoPer(mese, anno)]
            ELSE [report |-> FormatReport(SortValues(GroupBy(df_mese)), mese, anno),
                  status |-> StReportGenerato]

(***************************************************************************)
(* Inputs explored.                                                        *)
(***************************************************************************)
Blank == <<>>

RowOf(d, dr, t) ==
    [c \in Columns |->
        CASE c = "DATA" -> d
          [] c = "DRIVER" -> dr
          [] c = "TARGA" -> t
          [] OTHER -> Blank]

\* DATA cells: 5 and 12 March 2024, 5 April 2024, the unparsable "2024-02-30".
Mar05 == <<2024, 3, 5>>
Mar12 == <<2024, 3, 12>>
Apr05 == <<2024, 4, 5>>
BadDate == <<2024, 2, 30>>

\* DRIVER cells: " a", "B" and the blank " ".
DriverA == <<32, 97>>
DriverB == <<66>>
DriverBlank == <<32>>

\* TARGA cells: "x y", "Z" and the blank " ".
PlateXY == <<120, 32, 121>>
PlateZ == <<90>>
PlateBlank == <<32>>

\* Rows a sheet may hold: every March row of drivers " a", "B" and plates
\* "x y", "Z"; one April row; one row with an unparsable date, one with a blank
\* driver, one with a blank plate.
SheetRows ==
    {RowOf(d, dr, t) : d \in {Mar05, Mar12}, dr \in {DriverA, DriverB},
                       t \in {PlateXY, PlateZ}}
    \cup {RowOf(Apr05, DriverA, PlateXY), RowOf(BadDate, DriverA, PlateXY),
          RowOf(Mar05, DriverBlank, PlateXY), RowOf(Mar05, DriverA, PlateBlank)}

RECURSIVE SeqsUpTo(_, _)
SeqsUpTo(S, n) ==
    IF n = 0 THEN {<<>>}
    ELSE LET shorter == SeqsUpTo(S, n - 1)
         IN shorter \cup {Append(q, x) : q \in {r \in shorter : Len(r) = n - 1}, x \in S}

\* Header rows: complete, or lacking one required column.
Headers == {Columns} \cup {Columns \ {c} : c \in required_cols}

\* (mese, anno) arguments of generate_report: the month that has rows, and
\* the same month of a year that has none.
Periods == {<<3, 2024>>, <<3, 2023>>}

\* Telegram ids that send updates: the authorized ones and a stranger.
Stranger == "1"
Users == AUTHORIZED_USERS \cup {Stranger}

NoData == [TARGA |-> Blank, DRIVER |-> Blank, KM |-> Blank, SEGNALAZIONI |-> Blank]

SessionsIdle ==
    /\ conv = [u \in Users |-> END]
    /\ user_data = [u \in Users |-> NoData]
    /\ keyboard = [u \in Users |-> <<>>]
    /\ reply = [u \in Users |-> ""]
    /\ path = [u \in Users |-> <<>>]

NoReport ==
    [called |-> FALSE, mese |-> 0, anno |-> 0, readOk |-> TRUE,
     report |-> <<>>, status |-> Status("", 0, 0, "")]

(***************************************************************************)
(* ReportSpec: generate_report applied to every sheet within the bounds.   *)
(***************************************************************************)
InitReport ==
    /\ sheet \in [header : Headers, rows : SeqsUpTo(SheetRows, MaxRows)]
    /\ SessionsIdle
    /\ rep = NoReport

\* One call of generate_report; readOk is whether get_all_records returned.
Report(mese, anno, readOk) ==
    LET read == IF readOk THEN [ok |-> TRUE, records |-> GetAllRecords(sheet)]
                ELSE [ok |-> FALSE, err |-> "APIError"]
        out == generate_report(read, mese, anno)
    IN /\ rep' = [called |-> TRUE, mese |-> mese, anno |-> anno, readOk |-> readOk,
                  report |-> out.report, status |-> out.status]
       /\ UNCHANGED <<sheet, conv, user_data, keyboard, reply, path>>

NextReport == \E p \in Periods, readOk \in BOOLEAN : Report(p[1], p[2], readOk)

ReportSpec == InitReport /\ [][NextReport]_vars

(***************************************************************************)
(* Claims about generate_report, checked under ReportSpec.                 *)
(***************************************************************************)
\* The blocks of the last report, one per group (the title line removed).
Blocks == IF rep.report = <<>> THEN <<>> ELSE Tail(rep.report)

Succeeded == rep.called /\ rep.status = StReportGenerato

\* The frame the last call aggregated: normalised rows of the period.
PeriodFrame == FilterPeriod(Normalize(GetAllRecords(sheet)), rep.mese, rep.anno)

RECURSIVE SumGiorni(_)
SumGiorni(blocks) ==
    IF blocks = <<>> THEN 0 ELSE Head(blocks).GIORNI + SumGiorni(Tail(blocks))

\* A DATA cell that is a calendar date of the given month and year.
CellInPeriod(cell, mese, anno) ==
    /\ Len(cell) = 3
    /\ cell[1] = anno /\ cell[2] = mese
    /\ cell[3] >= 1 /\ cell[3] <= DaysIn(anno, mese)

HeaderComplete == {"DATA", "DRIVER", "TARGA"} \subseteq sheet.header

SomeRowInPeriod ==
    \E i \in 1..Len(sheet.rows) : CellInPeriod(sheet.rows[i]["DATA"], rep.mese, rep.anno)

\* C4 (as stated): the sum of the day counts of the groups of a report equals
\* the number of distinct (driver, plate, day) triples among the records of
\* the period, so two records of the same driver and plate on the same day
\* count as one day.
C4_SumIsDistinctTriples ==
    Succeeded =>
        SumGiorni(Blocks) =
            Cardinality({<<PeriodFrame[i]["DRIVER"], PeriodFrame[i]["TARGA"],
                           PeriodFrame[i]["DATA"]>> : i \in 1..Len(PeriodFrame)})

\* C5 (as stated): rows whose date is unparsable or whose driver or plate is
\* empty after trimming are not aggregated, so no group of a report has an
\* empty driver or an empty plate.
C5_NoEmptyDriverOrPlate ==
    Succeeded =>
        \A i \in 1..Len(Blocks) : Blocks[i].DRIVER # <<>> /\ Blocks[i].TARGA # <<>>

\* C6: when the sheet was read and has every required column, a sheet with rows
\* but none in the requested period gives "Nessun dato per mm/yyyy", an empty
\* sheet gives "Nessun dato trovato"; the two texts differ and both come with
\* an empty report body.
C6_NoDataOutcomes ==
    (rep.called /\ rep.readOk) =>
        /\ sheet.rows = <<>> =>
              rep.status = StNessunDato /\ rep.report = <<>>
        /\ (sheet.rows # <<>> /\ HeaderComplete /\ ~SomeRowInPeriod) =>
              /\ rep.status = StNessunDatoPer(rep.mese, rep.anno)
              /\ rep.status.text # StNessunDato.text
              /\ rep.report = <<>>

C6_Witness ==
    /\ rep.called /\ rep.readOk /\ HeaderComplete
    /\ sheet.rows # <<>> /\ ~SomeRowInPeriod
    /\ \E i \in 1..Len(sheet.rows) : ToDatetime(sheet.rows[i]["DATA"]) # NaT
    /\ rep.status.text = "Nessun dato per"

\* C7: when the rows read from a non-empty sheet lack DATA, DRIVER or TARGA the
\* call ends with "Intestazioni mancanti" and an empty body, and no other
\* cause gives that status.
C7_MissingColumns ==
    rep.called =>
        ((rep.readOk /\ sheet.rows # <<>> /\ ~HeaderComplete)
            <=> (rep.status.text = "Intestazioni mancanti" /\ rep.report = <<>>
                 /\ rep.status # StNessunDato
                 /\ rep.status.text # "Nessun dato per"
                 /\ rep.status.text # "Errore"))

C7_Witness ==
    /\ rep.called /\ rep.readOk
    /\ Len(sheet.rows) >= 2 /\ "TARGA" \notin sheet.header
    /\ rep.status = StIntestazioni /\ rep.report = <<>>

\* C8: in every report the groups are in ascending order of driver, and two
\* adjacent groups of the same driver have day counts in descending order.
C8_SortOrder ==
    Succeeded =>
        \A i \in 1..(Len(Blocks) - 1) :
            /\ ~StrLess(Blocks[i + 1].DRIVER, Blocks[i].DRIVER)
            /\ Blocks[i].DRIVER = Blocks[i + 1].DRIVER =>
                  Blocks[i].GIORNI >= Blocks[i + 1].GIORNI

\* A report in which the sort moved a group: same driver, the plate that is
\* later in key order comes first because it has more rows.
C8_Witness ==
    /\ Succeeded /\ Len(Blocks) >= 2
    /\ Blocks[1].DRIVER = Blocks[2].DRIVER
    /\ Blocks[1].GIORNI > Blocks[2].GIORNI
    /\ StrLess(Blocks[2].TARGA, Blocks[1].TARGA)

\* The cause of the outcome of the last call, read off the inputs alone.
Cause ==
    IF ~rep.readOk THEN "Errore"
    ELSE IF sheet.rows = <<>> THEN "Nessun dato trovato"
    ELSE IF ~HeaderComplete THEN "Intestazioni mancanti"
    ELSE IF ~SomeRowInPeriod THEN "Nessun dato per"
    ELSE "Report generato"

\* C9: every call returns a (report, status) pair; the body is non-empty
\* exactly when the status is the success status, and each cause (read error,
\* no data at all, missing columns, no data for the period) has its own text.
C9_TotalAndDistinct ==
    rep.called =>
        /\ rep.status.text = Cause
        /\ (rep.report # <<>>) <=> (rep.status = StReportGenerato)
        /\ (Cause = "Nessun dato per") =>
              (rep.status.mese = rep.mese /\ rep.status.anno = rep.anno)

C9_Witness ==
    /\ rep.called /\ ~rep.readOk /\ sheet.rows # <<>>
    /\ rep.status.text = "Errore" /\ rep.report = <<>>

(***************************************************************************)
(* nuovo_start: the entry point of the entry conversation.                 *)
(***************************************************************************)
\* The allow-list test with its sense inverted.
IsAuthorized_Inverted(id) == id \notin AUTHORIZED_USERS

\* Line 117: the allow-list test.
IsAuthorized(id) == id \in AUTHORIZED_USERS

\* The plate column without unique().
Targhe_dup(records) == [i \in 1..Len(records) |-> records[i]["TARGA"]]

\* Line 124: df['TARGA'].dropna().unique(); the cells read are never null.
Targhe(records) == Unique([i \in 1..Len(records) |-> records[i]["TARGA"]])

\* sorted(): ascending insertion of one text into a sorted sequence.
RECURSIVE InsertStr(_, _)
InsertStr(sorted, x) ==
    IF sorted = <<>> THEN <<x>>
    ELSE IF StrLess(x, sorted[Len(sorted)])
         THEN Append(InsertStr(SubSeq(sorted, 1, Len(sorted) - 1), x),
                     sorted[Len(sorted)])
         ELSE Append(sorted, x)

RECURSIVE Sorted(_)
Sorted(s) ==
    IF s = <<>> THEN <<>>
    ELSE InsertStr(Sorted(SubSeq(s, 1, Len(s) - 1)), s[Len(s)])

\* "cancel", the callback_data of the last button, and its label "Annulla".
CancelData == <<99, 97, 110, 99, 101, 108>>
AnnullaText == <<65, 110, 110, 117, 108, 108, 97>>

Button(text, data) == [text |-> text, callback_data |-> data]

\* Lines 126-130: one button per plate in sorted order, then the cancel button.
Keyboard(targhe) ==
    LET st == Sorted(targhe)
    IN Append([i \in 1..Len(st) |-> Button(st[i], st[i])],
              Button(AnnullaText, CancelData))

\* nuovo_start returning GET_DRIVER after sending the plate prompt.
nuovo_start_skips_plate(id, read, sendOk) ==
    IF ~IsAuthorized(id)
    THEN [state |-> END, text |-> "Accesso negato", reply_markup |-> <<>>]
    ELSE IF ~read.ok \/ "TARGA" \notin DfColumns(read.records) \/ ~sendOk
    THEN [state |-> END, text |-> "Errore di sistema", reply_markup |-> <<>>]
    ELSE [state |-> GET_DRIVER, text |-> "Seleziona targa:",
          reply_markup |-> Keyboard(Targhe(read.records))]

\* nuovo_start(update, context): the state returned, the text replied and the
\* keyboard sent.  read is what get_all_records did; sendOk is whether the
\* reply with the keyboard (line 132) was delivered.
nuovo_start(id, read, sendOk) ==
    IF ~IsAuthorized(id)
    THEN [state |-> END, text |-> "Accesso negato", reply_markup |-> <<>>]
    ELSE IF ~read.ok \/ "TARGA" \notin DfColumns(read.records) \/ ~sendOk
    THEN [state |-> END, text |-> "Errore di sistema", reply_markup |-> <<>>]
    ELSE [state |-> SELECT_TARGA, text |-> "Seleziona targa:",
          reply_markup |-> Keyboard(Targhe(read.records))]

(***************************************************************************)
(* The ConversationHandler of main.                                        *)
(***************************************************************************)
\* Line 164: entry_points, tried only while the user has no conversation.
entry_points == {"nuovo"}

\* A handler with no fallback registered.
fallbacks_none == {}

\* Line 169: fallbacks, tried in every state after the state's own handlers.
fallbacks == {"cancel"}

\* Lines 165-168: the kind of update the handlers of a state accept.  Only
\* SELECT_TARGA is spelled out (a CallbackQueryHandler); the states collecting
\* typed fields take messages.
StateAccepts(state) ==
    IF state = SELECT_TARGA THEN "callback_query" ELSE "message"

NonTerminal == {SELECT_TARGA, GET_DRIVER, GET_KM, GET_SEGNALAZIONI}

(***************************************************************************)
(* Spec: the entry conversations of the users over a shared sheet.         *)
(***************************************************************************)
\* Texts a user may type: " a", " ", "5", "-1", "skip", "ok".
TxtA == <<32, 97>>
TxtBlank == <<32>>
Txt5 == <<53>>
TxtMinus1 == <<45, 49>>
TxtSkip == <<115, 107, 105, 112>>
TxtOk == <<111, 107>>

DriverTexts == {TxtA, TxtBlank}
KmTexts == {Txt5, TxtMinus1, TxtSkip}
NotesTexts == {TxtOk, TxtSkip}

\* callback_data a user may send: any button of any keyboard ever shown.
CallbackData == {PlateXY, PlateZ, CancelData}

\* The date put on a completed record.
Today == Mar12

EntryRows == {RowOf(Mar05, DriverB, t) : t \in {PlateXY, PlateZ}}

\* The bot once it is polling: the handlers are registered, no conversation is
\* open, and the sheet holds up to MaxStore rows, with or without TARGA.
Init ==
    /\ sheet \in [header : {Columns, Columns \ {"TARGA"}},
                  rows : SeqsUpTo(EntryRows, MaxStore)]
    /\ SessionsIdle
    /\ rep = NoReport

\* /nuovo from user u while u has no conversation.
NuovoStart(u, readOk, sendOk) ==
    /\ conv[u] = END
    /\ "nuovo" \in entry_points
    /\ LET read == IF readOk THEN [ok |-> TRUE, records |-> GetAllRecords(sheet)]
                   ELSE [ok |-> FALSE, err |-> "APIError"]
           out == nuovo_start(u, read, sendOk)
       IN /\ conv' = [conv EXCEPT ![u] = out.state]
          /\ reply' = [reply EXCEPT ![u] = out.text]
          /\ keyboard' = [keyboard EXCEPT ![u] = out.reply_markup]
          /\ path' = [path EXCEPT ![u] = <<>>]
    /\ UNCHANGED <<sheet, user_data, rep>>

OfferedPlates(u) ==
    {keyboard[u][i].callback_data : i \in 1..Len(keyboard[u])} \ {CancelData}

EndSession(u, text) ==
    /\ conv' = [conv EXCEPT ![u] = END]
    /\ user_data' = [user_data EXCEPT ![u] = NoData]
    /\ path' = [path EXCEPT ![u] = <<>>]
    /\ reply' = [reply EXCEPT ![u] = text]

Advance(u, field, value, input, next, text) ==
    /\ conv' = [conv EXCEPT ![u] = next]
    /\ user_data' = [user_data EXCEPT ![u][field] = value]
    /\ path' = [path EXCEPT ![u] = Append(@, <<conv[u], input>>)]
    /\ reply' = [reply EXCEPT ![u] = text]

Reprompt(u) ==
    /\ reply' = [reply EXCEPT ![u] = "Valore non valido"]
    /\ UNCHANGED <<conv, user_data, path>>

\* targa_handler: a button press while the plate prompt is open.
TargaHandler(u, data) ==
    /\ conv[u] = SELECT_TARGA
    /\ StateAccepts(conv[u]) = "callback_query"
    /\ IF data = CancelData THEN EndSession(u, "Annullato")
       ELSE IF data \in OfferedPlates(u)
       THEN Advance(u, "TARGA", data, data, GET_DRIVER, "Driver?")
       ELSE Reprompt(u)
    /\ UNCHANGED <<sheet, keyboard, rep>>

\* The handler of GET_DRIVER: non-empty text, stored trimmed and upper-cased.
DriverHandler(u, text) ==
    /\ conv[u] = GET_DRIVER
    /\ StateAccepts(conv[u]) = "message"
    /\ IF Strip(text) # <<>>
       THEN Advance(u, "DRIVER", Upper(Strip(text)), text, GET_KM, "Km?")
       ELSE Reprompt(u)
    /\ UNCHANGED <<sheet, keyboard, rep>>

IsNumber(text) ==
    text # <<>> /\ \A i \in 1..Len(text) : text[i] >= 48 /\ text[i] <= 57

\* The handler of GET_KM: a non-negative number, or "skip".
KmHandler(u, text) ==
    /\ conv[u] = GET_KM
    /\ StateAccepts(conv[u]) = "message"
    /\ IF text = TxtSkip
       THEN Advance(u, "KM", Blank, text, GET_SEGNALAZIONI, "Segnalazioni?")
       ELSE IF IsNumber(text)
       THEN Advance(u, "KM", text, text, GET_SEGNALAZIONI, "Segnalazioni?")
       ELSE Reprompt(u)
    /\ UNCHANGED <<sheet, keyboard, rep>>

\* The handler of GET_SEGNALAZIONI: free text or "skip"; the record is
\* appended to the sheet and the conversation ends.
SegnalazioniHandler(u, text) ==
    /\ conv[u] = GET_SEGNALAZIONI
    /\ StateAccepts(conv[u]) = "message"
    /\ Len(sheet.rows) < MaxStore
    /\ LET notes == IF text = TxtSkip THEN Blank ELSE text
           record == [c \in Columns |->
                        IF c = "DATA" THEN Today
                        ELSE IF c = "SEGNALAZIONI" THEN notes
                        ELSE user_data[u][c]]
       IN sheet' = [sheet EXCEPT !.rows = Append(@, record)]
    /\ conv' = [conv EXCEPT ![u] = END]
    /\ user_data' = [user_data EXCEPT ![u] = NoData]
    /\ path' = [path EXCEPT ![u] = Append(@, <<conv[u], text>>)]
    /\ reply' = [reply EXCEPT ![u] = "Salvato"]
    /\ UNCHANGED <<keyboard, rep>>

\* /cancel: the fallback, in any state of a conversation.
Cancel(u) ==
    /\ conv[u] # END
    /\ "cancel" \in fallbacks
    /\ EndSession(u, "Annullato")
    /\ UNCHANGED <<sheet, keyboard, rep>>

Next ==
    \E u \in Users :
        \/ \E readOk \in BOOLEAN, sendOk \in BOOLEAN : NuovoStart(u, readOk, sendOk)
        \/ \E data \in CallbackData : TargaHandler(u, data)
        \/ \E text \in DriverTexts : DriverHandler(u, text)
        \/ \E text \in KmTexts : KmHandler(u, text)
        \/ \E text \in NotesTexts : SegnalazioniHandler(u, text)
        \/ Cancel(u)

Spec == Init /\ [][Next]_vars

(***************************************************************************)
(* Claims about the entry conversation, checked under Spec.                *)
(***************************************************************************)
\* C1: an identity that is not in the allow-list never has an entry session:
\* its conversation state is END, it was never sent a keyboard, and the only
\* answer it ever got to /nuovo is "Accesso negato", whatever the sheet holds.
C1_UnauthorizedDenied ==
    \A u \in Users \ AUTHORIZED_USERS :
        /\ conv[u] = END
        /\ keyboard[u] = <<>>
        /\ reply[u] \in {"", "Accesso negato"}

C1_Witness ==
    /\ reply[Stranger] = "Accesso negato" /\ conv[Stranger] = END
    /\ sheet.rows # <<>> /\ "TARGA" \in sheet.header

LastRow(sh) == sh.rows[Len(sh.rows)]

Destroyed(u) == conv'[u] = END /\ user_data'[u] = NoData /\ sheet' = sheet

Completes(u) ==
    conv[u] = GET_SEGNALAZIONI /\ conv'[u] = END /\ reply'[u] = "Salvato"

OptionalField(text) == IF text = TxtSkip THEN Blank ELSE text

StartsFrom(u) ==
    /\ conv[u] = END
    /\ conv'[u] # END \/ reply'[u] # reply[u] \/ keyboard'[u] # keyboard[u]

PlatesOf(sh) == {sh.rows[i]["TARGA"] : i \in 1..Len(sh.rows)}

\* C10: /nuovo opens the plate prompt only for an authorized identity and a
\* sheet that was read with rows and a TARGA column; the keyboard then holds
\* one button per distinct TARGA value of the sheet and, last, one cancel
\* button.  Otherwise the conversation ends with a failure text and no
\* keyboard; an authorized identity facing an empty sheet or a sheet without
\* TARGA gets "Errore di sistema".
C10_StartOutcome ==
    [][\A u \in Users :
          StartsFrom(u) =>
             /\ \/ /\ conv'[u] = SELECT_TARGA
                   /\ u \in AUTHORIZED_USERS
                   /\ "TARGA" \in sheet.header /\ sheet.rows # <<>>
                   /\ reply'[u] = "Seleziona targa:"
                   /\ Len(keyboard'[u]) = Cardinality(PlatesOf(sheet)) + 1
                   /\ {keyboard'[u][i].callback_data :
                          i \in 1..(Len(keyboard'[u]) - 1)} = PlatesOf(sheet)
                   /\ keyboard'[u][Len(keyboard'[u])].callback_data = CancelData
                \/ /\ conv'[u] = END
                   /\ reply'[u] \in {"Accesso negato", "Errore di sistema"}
                   /\ keyboard'[u] = <<>>
             /\ (u \in AUTHORIZED_USERS
                 /\ (sheet.rows = <<>> \/ "TARGA" \notin sheet.header)) =>
                   (conv'[u] = END /\ reply'[u] = "Errore di sistema")
      ]_vars

\* A prompt opened on a sheet whose two rows carry the same plate: one plate
\* button and the cancel button.
C10_Witness ==
    \E u \in Users :
        /\ conv[u] = SELECT_TARGA /\ Len(keyboard[u]) = 2
        /\ Len(sheet.rows) = 2
        /\ sheet.rows[1]["TARGA"] = sheet.rows[2]["TARGA"]

====
